---- MODULE Spec2Model ----
(***************************************************************************)
(* Model of package gpg (src/unnamed/part_000): the three operations       *)
(* Decrypt, Verify and VerifyInline of a GPG handle, the subprocess they   *)
(* run, the diagnostic stream (stderr) they capture and the regular        *)
(* expressions they apply to it.                                           *)
(*                                                                         *)
(* Text is modelled as a sequence of tokens.  A token is either one byte   *)
(* ("Q" the double quote, "NL" newline, "ESC" 0x1B, "CR" carriage return,  *)
(* "SP" space, "a" "b" "k" ordinary printable bytes) or one of the fixed   *)
(* literals the regular expressions look for:                              *)
(*    "G"  gpg: Good signature from "      (opening quote included)        *)
(*    "B"  gpg: BAD signature from "       (opening quote included)        *)
(*    "E"  gpg: encrypted with                                             *)
(*                                                                         *)
(* The module also holds three smaller models, each with its own           *)
(* variables and its own specification:                                    *)
(*    ParSpec   several calls interleaved on one GPG handle                *)
(*    PageSpec  Page.PreloadSubjects (src/pkg/cmdg/page.go), with          *)
(*              FairPageSpec for what it does in the end                   *)
(*    FileSpec  saveFile and openFile                                      *)
(*              (src/cmd/cmdg/view_attachments.go)                         *)
(* A specification leaves the variables of the other models as they are.   *)
(***************************************************************************)
EXTENDS Integers, Sequences, FiniteSets, TLC

VARIABLES
    pc,        \* position of the call: idle, tempdir, writeData, writeSig, start, wait, returned
    op,        \* the operation called: none, Decrypt, Verify, VerifyInline
    ctxDone,   \* the caller's context has been cancelled
    proc,      \* the subprocess: none, running, killed, reaped
    stderr,    \* bytes.Buffer capturing the subprocess's standard error
    stdout,    \* bytes.Buffer capturing the subprocess's standard output (Decrypt)
    term,      \* how cmd.Wait() ended (none until it returns)
    debugNoRemove, \* value of the flag as Verify reads it when it registers its cleanup
    fs,        \* the temporary directory of Verify and its two files
    from,      \* the step whose return statement ended the call (none until then)
    ret        \* what the call returned: plaintext, status, err

\* Concurrent calls on one handle (package gpg).
VARIABLES
    handle,    \* the GPG handle New returned: its fields GPG and Passphrase
    calls,     \* the calls in flight on the handle, each with its own locals
    tmp        \* the temporary directories of the system, by name

\* Page.PreloadSubjects (src/pkg/cmdg/page.go).
VARIABLES
    ppc,       \* position of PreloadSubjects: loop, fill, returned
    num,       \* len(p.Response.Messages)
    nLoop,     \* n, the index of the first loop
    tLoop,     \* t, the index of the second loop
    sem,       \* number of elements in the channel sem
    errs,      \* errs[i]: the Preload of message i returned an error
    workers    \* the goroutine of message i: none, started, preloaded, done

\* saveFile and openFile (src/cmd/cmdg/view_attachments.go).
VARIABLES
    fop,       \* the function called: none, saveFile, openFile
    fpc,       \* its position: idle, open, write, close, start, wait, returned
    fn,        \* saveFile's argument fn
    openWait,  \* value of the flag open_wait
    disk,      \* the files: what each path holds
    ferr,      \* the return statement that ended the function (none until then)
    opener,    \* the process of *openBinary: none, running, exited
    bg         \* the goroutine running w: none, wait, sleep, remove, done

gpgVars == <<pc, op, ctxDone, proc, stderr, stdout, term, debugNoRemove, fs, from, ret>>
parVars == <<handle, calls, tmp>>
pageVars == <<ppc, num, nLoop, tLoop, sem, errs, workers>>
fileVars == <<fop, fpc, fn, openWait, disk, ferr, opener, bg>>
vars == <<gpgVars, parVars, pageVars, fileVars>>

\* ------------------------------------------------------------------ bounds

\* Number of lines the subprocess writes to its standard error.
MaxChunks == 2

\* ------------------------------------------------------------------ text

Min(S) == CHOOSE x \in S : \A y \in S : x <= y
Max(S) == CHOOSE x \in S : \A y \in S : x >= y

\* Identities a key's user ID can put between the quotes.
Idents == { <<>>, <<"a">>, <<"b", "SP", "ESC">>, <<"CR">> }

GoodLine(id) == <<"G">> \o id \o <<"Q">>
BadLine(id) == <<"B">> \o id \o <<"Q">>
EncLine(id) == <<"E", "k", "NL", "SP", "Q">> \o id \o <<"Q">>

\* What one write of the subprocess to its standard error can be: one of the
\* three announcements, with the newline that ends it or without.
Chunks ==
    LET texts == {GoodLine(id) : id \in Idents} \cup {BadLine(id) : id \in Idents}
                    \cup {EncLine(id) : id \in Idents}
    IN  texts \cup {t \o <<"NL">> : t \in texts}

\* What the subprocess can write to its standard output: a plaintext.
OutChunks == { <<"p">> }

\* (?m)^ : the start of the text or the position after a newline.
IsLineStart(s, i) == i = 1 \/ s[i - 1] = "NL"

\* The position of the first newline at or after i, Len(s)+1 when there is none.
LineEnd(s, i) == Min({j \in i..Len(s) : s[j] = "NL"} \cup {Len(s) + 1})

\* `^<head>(.*)"` matches at i: head at a line start, and a quote later on the line.
SigMatchAt(s, i, head) ==
    /\ IsLineStart(s, i)
    /\ s[i] = head
    /\ \E q \in (i + 1)..(LineEnd(s, i) - 1) : s[q] = "Q"

\* (.*) is greedy: the group runs to the last quote of the line.
SigGroupAt(s, i) ==
    LET q == Max({j \in (i + 1)..(LineEnd(s, i) - 1) : s[j] = "Q"})
    IN  SubSeq(s, i + 1, q - 1)

\* regexp.FindStringSubmatch for goodSignatureRE / badSignatureRE: the leftmost match.
FindSig(s, head) ==
    LET at == {i \in 1..Len(s) : SigMatchAt(s, i, head)}
    IN  IF at = {} THEN [found |-> FALSE, m1 |-> <<>>]
        ELSE [found |-> TRUE, m1 |-> SigGroupAt(s, Min(at))]

goodSignatureRE(s) == FindSig(s, "G")
badSignatureRE(s) == FindSig(s, "B")

\* \s of the regexp package, over the bytes of the model.
IsSpace(t) == t \in {"NL", "CR", "SP"}

\* The first position at or after i that holds no whitespace.
SkipSpace(s, i) == Min({j \in i..Len(s) : ~IsSpace(s[j])} \cup {Len(s) + 1})

\* ^gpg: encrypted with[^\n]+\n\s*"([^\n]+)"\n  matches at i.
EncMatchAt(s, i) ==
    /\ IsLineStart(s, i)
    /\ s[i] = "E"
    /\ LET e1 == LineEnd(s, i + 1)
           q == SkipSpace(s, e1 + 1)
           e2 == LineEnd(s, q + 1)
       IN  /\ e1 <= Len(s)
           /\ e1 > i + 1
           /\ q <= Len(s)
           /\ s[q] = "Q"
           /\ e2 <= Len(s)
           /\ s[e2 - 1] = "Q"
           /\ e2 - 1 > q + 1

\* The position of the newline that ends the match at i.
EncEndAt(s, i) == LineEnd(s, SkipSpace(s, LineEnd(s, i + 1) + 1) + 1)

EncGroupAt(s, i) ==
    LET q == SkipSpace(s, LineEnd(s, i + 1) + 1)
    IN  SubSeq(s, q + 1, EncEndAt(s, i) - 2)

\* regexp.FindAllStringSubmatch(s, -1) for encryptedRE: the successive
\* non-overlapping leftmost matches, searched from position p on.
RECURSIVE FindAllEnc(_, _)
FindAllEnc(s, p) ==
    LET at == {i \in p..Len(s) : EncMatchAt(s, i)}
    IN  IF at = {} THEN <<>>
        ELSE <<EncGroupAt(s, Min(at))>> \o FindAllEnc(s, EncEndAt(s, Min(at)) + 1)

\* encryptedRE applied with FindStringSubmatch: the first match only.
encryptedREFirstOnly(s) ==
    LET all == FindAllEnc(s, 1)
    IN  IF all = <<>> THEN <<>> ELSE <<all[1]>>

encryptedRE(s) == FindAllEnc(s, 1)

\* The bytes of the character class of unprintableRE.
Unprintable(t) == t \in {"ESC", "CR"}

\* unprintableRE with the carriage return forgotten in the character class.
unprintableREEscOnly(s) == SelectSeq(s, LAMBDA t : t # "ESC")

\* unprintableRE.ReplaceAllString(s, "")
unprintableRE(s) == SelectSeq(s, LAMBDA t : ~Unprintable(t))

\* strings.Trim(s, "\t ")
RECURSIVE TrimLeft(_)
TrimLeft(s) == IF s # <<>> /\ Head(s) = "SP" THEN TrimLeft(Tail(s)) ELSE s
RECURSIVE TrimRight(_)
TrimRight(s) ==
    IF s # <<>> /\ s[Len(s)] = "SP" THEN TrimRight(SubSeq(s, 1, Len(s) - 1)) ELSE s
Trim(s) == TrimRight(TrimLeft(s))

\* The %q verb (strconv.Quote): bytes that do not print are written as escapes.
QuoteToken(t) ==
    CASE t = "ESC" -> "\\x1b"
      [] t = "CR" -> "\\r"
      [] t = "NL" -> "\\n"
      [] t = "Q" -> "\\\""
      [] OTHER -> t
Quote(s) == <<"\"">> \o [i \in 1..Len(s) |-> QuoteToken(s[i])] \o <<"\"">>

\* ------------------------------------------------------------------ results

\* type Status struct: the zero value.
Status == [Signed |-> <<>>, Encrypted |-> <<>>, GoodSignature |-> FALSE, Warnings |-> <<>>]

\* An optional value is the empty sequence (nil) or a one-element sequence.
Some(x) == <<x>>
None == <<>>

\* An error value: the return statement it comes from, and its message.
Error(kind, msg) == Some([kind |-> kind, msg |-> msg])

\* (plaintext, *Status, error) as a call returns them; Verify has no plaintext.
Return(plaintext, status, err) == [plaintext |-> plaintext, status |-> status, err |-> err]
NoReturn == Return(<<>>, None, None)

\* How cmd.Wait() can end: exit status 0 (nil error), an *exec.ExitError with exit
\* status 1 or another status, an ExitError of a process a signal killed, an
\* ExitError whose Sys() is no syscall.WaitStatus, and an error that is no ExitError.
Terminations == {"exit0", "exit1", "exit2", "signal", "notUnix", "waitErr"}

\* syscall.WaitStatus.ExitStatus(): -1 when the process did not exit by itself.
ExitStatus(t) ==
    CASE t = "exit0" -> 0
      [] t = "exit1" -> 1
      [] t = "exit2" -> 2
      [] OTHER -> -1

\* err.Error() of what cmd.Wait() returned.
WaitMessage(t) ==
    CASE t = "exit1" -> <<"exit status 1">>
      [] t = "exit2" -> <<"exit status 2">>
      [] t = "signal" -> <<"signal: killed">>
      [] t = "notUnix" -> <<"exit status">>
      [] OTHER -> <<"wait: i/o error">>

\* errors.Wrapf(err, format, args...): the formatted text, ": ", the cause's text.
Wrapf(cause, text) == text \o <<": ">> \o cause

\* DecryptWait taking exit status 1 for a success, as Verify does.
DecryptWaitLax(t, errBuf, outBuf) ==
    IF t \notin {"exit0", "exit1"}
    THEN Return(<<>>, None,
                Error("Execution",
                      Wrapf(WaitMessage(t), <<"gpg decrypt failed: ">> \o Quote(errBuf))))
    ELSE Return(outBuf,
                Some([Status EXCEPT !.Signed = unprintableRE(goodSignatureRE(errBuf).m1),
                                    !.GoodSignature = goodSignatureRE(errBuf).found]),
                None)

\* Decrypt, from cmd.Wait() on.
DecryptWait(t, errBuf, outBuf) ==
    IF t # "exit0"
    THEN Return(<<>>, None,
                Error("Execution",
                      Wrapf(WaitMessage(t), <<"gpg decrypt failed: ">> \o Quote(errBuf))))
    ELSE LET m == goodSignatureRE(errBuf)
             ms == encryptedRE(errBuf)
             signed == IF m.found
                       THEN [Status EXCEPT !.Signed = unprintableRE(m.m1),
                                           !.GoodSignature = TRUE]
                       ELSE Status
             status == [signed EXCEPT
                           !.Encrypted = [i \in 1..Len(ms) |-> Trim(unprintableRE(ms[i]))]]
         IN  Return(outBuf, Some(status), None)

\* VerifyWaitError without the test of the exit status: every exit goes on to
\* the parsing of the diagnostics.
VerifyWaitErrorLax(t, errBuf) ==
    IF t \in {"waitErr", "notUnix"}
    THEN Error("Execution",
               Wrapf(WaitMessage(t),
                     <<"gpg verify failed for odd reason. stderr: ">> \o Quote(errBuf)))
    ELSE None

\* VerifyWaitError taking every error of cmd.Wait() for a failure, exit status 1
\* included.
VerifyWaitErrorStrict(t, errBuf) ==
    IF t = "exit0" THEN None
    ELSE Error("Execution",
               Wrapf(WaitMessage(t), <<"gpg verify failed: ">> \o Quote(errBuf)))

\* The classification of cmd.Wait()'s error in Verify: the error returned, or
\* None when the diagnostics are to be parsed.
VerifyWaitError(t, errBuf) ==
    IF t = "exit0" THEN None
    ELSE IF t = "waitErr"
    THEN Error("Execution",
               Wrapf(WaitMessage(t),
                     <<"gpg verify failed for odd reason. stderr: ">> \o Quote(errBuf)))
    ELSE IF t = "notUnix"
    THEN Error("Execution",
               Wrapf(WaitMessage(t),
                     <<"gpg verify failed, and not unix status. stderr: ">> \o Quote(errBuf)))
    ELSE IF ExitStatus(t) # 1
    THEN Error("Execution",
               Wrapf(WaitMessage(t),
                     <<"gpg verify failed, and not status 1. stderr: ">> \o Quote(errBuf)))
    ELSE None

\* VerifyParse with its two matches in the other order: the bad match is
\* applied last and overwrites the signer.
VerifyParseBadLast(errBuf) ==
    LET bad == badSignatureRE(errBuf)
        good == goodSignatureRE(errBuf)
        s1 == IF good.found
              THEN [Status EXCEPT !.Signed = unprintableRE(good.m1), !.GoodSignature = TRUE]
              ELSE Status
        s2 == IF bad.found THEN [s1 EXCEPT !.Signed = unprintableRE(bad.m1)] ELSE s1
    IN  IF ~(bad.found \/ good.found)
        THEN Return(<<>>, None,
                    Error("Indeterminate",
                          <<"signature not good nor bad. What? ">> \o Quote(errBuf)))
        ELSE Return(<<>>, Some(s2), None)

\* VerifyParse without the goodOrBad test: the Status is returned as it stands.
VerifyParseNoTest(errBuf) ==
    LET bad == badSignatureRE(errBuf)
        good == goodSignatureRE(errBuf)
        s1 == IF bad.found THEN [Status EXCEPT !.Signed = unprintableRE(bad.m1)] ELSE Status
        s2 == IF good.found
              THEN [s1 EXCEPT !.Signed = unprintableRE(good.m1), !.GoodSignature = TRUE]
              ELSE s1
    IN  Return(<<>>, Some(s2), None)

\* The two matches of Verify and the goodOrBad test.
VerifyParse(errBuf) ==
    LET bad == badSignatureRE(errBuf)
        good == goodSignatureRE(errBuf)
        s1 == IF bad.found THEN [Status EXCEPT !.Signed = unprintableRE(bad.m1)] ELSE Status
        s2 == IF good.found
              THEN [s1 EXCEPT !.Signed = unprintableRE(good.m1), !.GoodSignature = TRUE]
              ELSE s1
        goodOrBad == bad.found \/ good.found
    IN  IF ~goodOrBad
        THEN Return(<<>>, None,
                    Error("Indeterminate",
                          <<"signature not good nor bad. What? ">> \o Quote(errBuf)))
        ELSE Return(<<>>, Some(s2), None)

\* Verify, from cmd.Wait() on.
VerifyWait(t, errBuf) ==
    IF VerifyWaitError(t, errBuf) # None
    THEN Return(<<>>, None, VerifyWaitError(t, errBuf))
    ELSE VerifyParse(errBuf)

\* The classification of cmd.Wait()'s error in VerifyInline, which has its own
\* copy of the code.
VerifyInlineWaitError(t, errBuf) ==
    IF t = "exit0" THEN None
    ELSE IF t = "waitErr"
    THEN Error("Execution",
               Wrapf(WaitMessage(t),
                     <<"gpg verify failed for odd reason. stderr: ">> \o Quote(errBuf)))
    ELSE IF t = "notUnix"
    THEN Error("Execution",
               Wrapf(WaitMessage(t),
                     <<"gpg verify failed, and not unix status. stderr: ">> \o Quote(errBuf)))
    ELSE IF ExitStatus(t) # 1
    THEN Error("Execution",
               Wrapf(WaitMessage(t),
                     <<"gpg verify failed, and not status 1. stderr: ">> \o Quote(errBuf)))
    ELSE None

\* VerifyInlineParse without the bad match: a copy that has drifted from Verify.
VerifyInlineParseNoBad(errBuf) ==
    LET good == goodSignatureRE(errBuf)
    IN  IF ~good.found
        THEN Return(<<>>, None,
                    Error("Indeterminate",
                          <<"signature not good nor bad. What? ">> \o Quote(errBuf)))
        ELSE Return(<<>>,
                    Some([Status EXCEPT !.Signed = unprintableRE(good.m1),
                                        !.GoodSignature = TRUE]),
                    None)

\* The two matches of VerifyInline and its goodOrBad test.
VerifyInlineParse(errBuf) ==
    LET bad == badSignatureRE(errBuf)
        good == goodSignatureRE(errBuf)
        s1 == IF bad.found THEN [Status EXCEPT !.Signed = unprintableRE(bad.m1)] ELSE Status
        s2 == IF good.found
              THEN [s1 EXCEPT !.Signed = unprintableRE(good.m1), !.GoodSignature = TRUE]
              ELSE s1
        goodOrBad == bad.found \/ good.found
    IN  IF ~goodOrBad
        THEN Return(<<>>, None,
                    Error("Indeterminate",
                          <<"signature not good nor bad. What? ">> \o Quote(errBuf)))
        ELSE Return(<<>>, Some(s2), None)

\* VerifyInline, from cmd.Wait() on.
VerifyInlineWait(t, errBuf) ==
    IF VerifyInlineWaitError(t, errBuf) # None
    THEN Return(<<>>, None, VerifyInlineWaitError(t, errBuf))
    ELSE VerifyInlineParse(errBuf)

\* ------------------------------------------------------------------ files

\* The temporary directory of a Verify call, its data file and its signature file.
NoFiles == [dir |-> "never", data |-> "never", sig |-> "never"]

\* os.RemoveAll(dir): the directory and what it holds.
RemoveAll(f) ==
    [x \in DOMAIN f |-> IF f[x] = "exists" THEN "removed" ELSE f[x]]

\* Cleanup with the test of the flag inverted.
CleanupInverted(f, k) == IF k THEN RemoveAll(f) ELSE f

\* The deferred cleanup of Verify: registered only when *debugNoRemove was false.
Cleanup(f, k) == IF k THEN f ELSE RemoveAll(f)

\* ------------------------------------------------------------------ the call

Ops == {"Decrypt", "Verify", "VerifyInline"}

\* New(gpg): the handle, with its Passphrase left empty.
New == [GPG |-> <<"gpg">>, Passphrase |-> <<>>]

\* The handle with no concurrent calls on it.
ParQuiet == handle = New /\ calls = <<>> /\ tmp = <<>>

\* No PreloadSubjects under way.
PageQuiet ==
    /\ ppc = "returned" /\ num = 0 /\ nLoop = 0 /\ tLoop = 0
    /\ sem = 0 /\ errs = <<>> /\ workers = <<>>

\* No saveFile and no openFile under way.
FileQuiet ==
    /\ fop = "none" /\ fpc = "idle" /\ fn = <<>> /\ openWait = FALSE
    /\ disk = <<>> /\ ferr = "none" /\ opener = "none" /\ bg = "none"

\* One call on a new handle.
GpgInit ==
    /\ pc = "idle"
    /\ op = "none"
    /\ ctxDone = FALSE
    /\ proc = "none"
    /\ stderr = <<>>
    /\ stdout = <<>>
    /\ term = "none"
    /\ debugNoRemove = FALSE
    /\ fs = NoFiles
    /\ from = "none"
    /\ ret = NoReturn

Init == GpgInit /\ ParQuiet /\ PageQuiet /\ FileQuiet

\* The caller calls one of the three operations of the handle.
Call(o) ==
    /\ pc = "idle"
    /\ op' = o
    /\ pc' = IF o = "Verify" THEN "tempdir" ELSE "start"
    /\ UNCHANGED <<ctxDone, proc, stderr, stdout, term, debugNoRemove, fs, from, ret>>
    /\ UNCHANGED <<parVars, pageVars, fileVars>>

\* The caller's context is cancelled while the call is in flight.
Cancel ==
    /\ pc \in {"tempdir", "writeData", "writeSig", "start", "wait"}
    /\ ~ctxDone
    /\ ctxDone' = TRUE
    /\ UNCHANGED <<pc, op, proc, stderr, stdout, term, debugNoRemove, fs, from, ret>>
    /\ UNCHANGED <<parVars, pageVars, fileVars>>

\* The watcher of exec.CommandContext sees the context done and kills the
\* subprocess, if it still runs: until then the subprocess may write and may
\* exit by itself.
Kill ==
    /\ pc = "wait"
    /\ ctxDone
    /\ proc = "running"
    /\ proc' = "killed"
    /\ UNCHANGED <<pc, op, ctxDone, stderr, stdout, term, debugNoRemove, fs, from, ret>>
    /\ UNCHANGED <<parVars, pageVars, fileVars>>

\* The call returns r; Verify's deferred cleanup runs on the files f.
Returns(r, f) ==
    /\ pc' = "returned"
    /\ from' = pc
    /\ ret' = r
    /\ fs' = f

\* Verify: ioutil.TempDir, then the read of *debugNoRemove that decides whether
\* the cleanup is deferred.
VerifyTempDir ==
    /\ pc = "tempdir"
    /\ \/ /\ Returns(Return(<<>>, None, Error("Resource", <<"mkdir: no space left">>)), fs)
          /\ UNCHANGED debugNoRemove
       \/ /\ \E k \in BOOLEAN : debugNoRemove' = k
          /\ fs' = [fs EXCEPT !.dir = "exists"]
          /\ pc' = "writeData"
          /\ UNCHANGED <<from, ret>>
    /\ UNCHANGED <<op, ctxDone, proc, stderr, stdout, term>>
    /\ UNCHANGED <<parVars, pageVars, fileVars>>

\* ioutil.WriteFile of file x: it succeeds, or it fails having created the file
\* or not.
WriteFile(x, next) ==
    \/ /\ fs' = [fs EXCEPT ![x] = "exists"]
       /\ pc' = next
       /\ UNCHANGED <<from, ret>>
    \/ \E made \in BOOLEAN :
          Returns(Return(<<>>, None, Error("Resource", <<"write: no space left">>)),
                  Cleanup([fs EXCEPT ![x] = IF made THEN "exists" ELSE @], debugNoRemove))

VerifyWriteData ==
    /\ pc = "writeData"
    /\ WriteFile("data", "writeSig")
    /\ UNCHANGED <<op, ctxDone, proc, stderr, stdout, term, debugNoRemove>>
    /\ UNCHANGED <<parVars, pageVars, fileVars>>

VerifyWriteSig ==
    /\ pc = "writeSig"
    /\ WriteFile("sig", "start")
    /\ UNCHANGED <<op, ctxDone, proc, stderr, stdout, term, debugNoRemove>>
    /\ UNCHANGED <<parVars, pageVars, fileVars>>

\* The text of the error cmd.Start() fails with.
StartMessage(o, cancelled) ==
    Wrapf(IF cancelled THEN <<"context canceled">> ELSE <<"exec: not found">>,
          IF o = "Decrypt"
          THEN <<"failed to start gpg: ">> \o Quote(<<"gpg">>) \o Quote(<<>>)
          ELSE <<"failed to start gpg: ">> \o Quote(<<"gpg">>))

\* cmd.Start(): it fails when the context is already done, and it may fail by
\* itself; otherwise the subprocess runs.
Start ==
    /\ pc = "start"
    /\ \/ /\ ~ctxDone
          /\ proc' = "running"
          /\ pc' = "wait"
          /\ UNCHANGED <<from, ret, fs>>
       \/ /\ Returns(Return(<<>>, None, Error("Launch", StartMessage(op, ctxDone))),
                     IF op = "Verify" THEN Cleanup(fs, debugNoRemove) ELSE fs)
          /\ UNCHANGED proc
    /\ UNCHANGED <<op, ctxDone, stderr, stdout, term, debugNoRemove>>
    /\ UNCHANGED <<parVars, pageVars, fileVars>>

\* The number of writes that made the captured standard error: each began with
\* one of the three literals.
Writes(s) == Cardinality({i \in 1..Len(s) : s[i] \in {"G", "B", "E"}})

\* The running subprocess writes to its standard error.
Emit(c) ==
    /\ pc = "wait"
    /\ proc = "running"
    /\ Writes(stderr) < MaxChunks
    /\ stderr' = stderr \o c
    /\ UNCHANGED <<pc, op, ctxDone, proc, stdout, term, debugNoRemove, fs, from, ret>>
    /\ UNCHANGED <<parVars, pageVars, fileVars>>

\* The running subprocess writes to its standard output, which only Decrypt captures.
EmitOut(c) ==
    /\ pc = "wait"
    /\ proc = "running"
    /\ op = "Decrypt"
    /\ stdout = <<>>
    /\ stdout' = stdout \o c
    /\ UNCHANGED <<pc, op, ctxDone, proc, stderr, term, debugNoRemove, fs, from, ret>>
    /\ UNCHANGED <<parVars, pageVars, fileVars>>

\* cmd.Wait() returns with termination t and the call runs to its return.  A
\* killed subprocess ends by the signal.
Wait(t) ==
    /\ pc = "wait"
    /\ proc = "killed" => t = "signal"
    /\ term' = t
    /\ proc' = "reaped"
    /\ Returns(IF op = "Decrypt" THEN DecryptWait(t, stderr, stdout)
               ELSE IF op = "Verify" THEN VerifyWait(t, stderr)
               ELSE VerifyInlineWait(t, stderr),
               IF op = "Verify" THEN Cleanup(fs, debugNoRemove) ELSE fs)
    /\ UNCHANGED <<op, ctxDone, stderr, stdout, debugNoRemove>>
    /\ UNCHANGED <<parVars, pageVars, fileVars>>

Next ==
    \/ \E o \in Ops : Call(o)
    \/ Cancel
    \/ Kill
    \/ VerifyTempDir
    \/ VerifyWriteData
    \/ VerifyWriteSig
    \/ Start
    \/ \E c \in Chunks : Emit(c)
    \/ \E c \in OutChunks : EmitOut(c)
    \/ \E t \in Terminations : Wait(t)

Spec == Init /\ [][Next]_vars

\* ------------------------------------------------------------------ concurrent calls on one handle

\* Number of calls made on the handle.
MaxCalls == 2

Callers == 1..MaxCalls

\* The names ioutil.TempDir can give: one for each call.
DirNames == 1..MaxCalls

\* What the subprocess of a concurrent call writes to its standard error, if
\* anything, and how it ends.
ParChunks == { GoodLine(<<"a">>) \o <<"NL">>, BadLine(<<"a">>) \o <<"NL">> }
ParTerminations == {"exit0", "exit2"}

\* The locals of a call: its position, its operation, the name of its temporary
\* directory (0: none), what it read of *debugNoRemove, its stderr buffer, how
\* cmd.Wait() ended, the step that returned and what was returned.
NoCall ==
    [pc |-> "idle", op |-> "none", dir |-> 0, keep |-> FALSE, stderr |-> <<>>,
     term |-> "none", from |-> "none", ret |-> NoReturn]

\* A directory name: whether the directory exists, and which call wrote its
\* file data and its file data.gpg (0: no such file).
NoDir == [dir |-> "never", data |-> 0, sig |-> 0]

ParInit ==
    /\ handle = New
    /\ calls = [c \in Callers |-> NoCall]
    /\ tmp = [d \in DirNames |-> NoDir]
    /\ GpgInit /\ PageQuiet /\ FileQuiet

\* A directory of one fixed name for every call, in place of ioutil.TempDir.
TempDirFixed(dirs) == 1

\* ioutil.TempDir("", "gpg-signature"): a new directory, under a name that no
\* existing directory has.
TempDir(dirs) == Min({d \in DirNames : dirs[d].dir # "exists"})

\* The deferred os.RemoveAll(dir) of call k, registered when it read the flag false.
ParCleanup(dirs, k) ==
    IF k.op # "Verify" \/ k.dir = 0 \/ k.keep THEN dirs
    ELSE [dirs EXCEPT ![k.dir] = [dir |-> "removed", data |-> 0, sig |-> 0]]

\* Call c returns r; its deferred cleanup runs on the directories dirs.
ParReturns(c, r, dirs) ==
    /\ calls' = [calls EXCEPT ![c] = [@ EXCEPT !.pc = "returned", !.from = calls[c].pc,
                                               !.ret = r]]
    /\ tmp' = ParCleanup(dirs, calls[c])

ParCall(c, o) ==
    /\ calls[c].pc = "idle"
    /\ calls' = [calls EXCEPT ![c] = [@ EXCEPT !.op = o,
                                               !.pc = IF o = "Verify" THEN "tempdir"
                                                                      ELSE "start"]]
    /\ UNCHANGED <<handle, tmp>>
    /\ UNCHANGED <<gpgVars, pageVars, fileVars>>

ParTempDir(c) ==
    /\ calls[c].pc = "tempdir"
    /\ \/ ParReturns(c, Return(<<>>, None, Error("Resource", <<"mkdir: no space left">>)), tmp)
       \/ \E k \in BOOLEAN :
             LET d == TempDir(tmp)
             IN  /\ calls' = [calls EXCEPT ![c] = [@ EXCEPT !.pc = "writeData",
                                                            !.dir = d, !.keep = k]]
                 /\ tmp' = [tmp EXCEPT ![d] = [@ EXCEPT !.dir = "exists"]]
    /\ UNCHANGED handle
    /\ UNCHANGED <<gpgVars, pageVars, fileVars>>

\* ioutil.WriteFile of call c's file x.
ParWriteFile(c, x, at, next) ==
    /\ calls[c].pc = at
    /\ LET d == calls[c].dir
       IN  \/ /\ tmp' = [tmp EXCEPT ![d] = [@ EXCEPT ![x] = c]]
              /\ calls' = [calls EXCEPT ![c] = [@ EXCEPT !.pc = next]]
           \/ \E made \in BOOLEAN :
                 ParReturns(c, Return(<<>>, None, Error("Resource", <<"write: no space left">>)),
                            [tmp EXCEPT ![d] = [@ EXCEPT ![x] = IF made THEN c ELSE @]])
    /\ UNCHANGED handle
    /\ UNCHANGED <<gpgVars, pageVars, fileVars>>

ParWriteData(c) == ParWriteFile(c, "data", "writeData", "writeSig")

ParWriteSig(c) == ParWriteFile(c, "sig", "writeSig", "start")

\* cmd.Start() with the binary named by the handle.
ParStart(c) ==
    /\ calls[c].pc = "start"
    /\ \/ /\ calls' = [calls EXCEPT ![c] = [@ EXCEPT !.pc = "wait"]]
          /\ UNCHANGED tmp
       \/ ParReturns(c, Return(<<>>, None,
                               Error("Launch", StartMessage(calls[c].op, FALSE))), tmp)
    /\ UNCHANGED handle
    /\ UNCHANGED <<gpgVars, pageVars, fileVars>>

\* The subprocess of call c writes to the stderr buffer of call c.
ParEmit(c, ch) ==
    /\ calls[c].pc = "wait"
    /\ calls[c].stderr = <<>>
    /\ calls' = [calls EXCEPT ![c] = [@ EXCEPT !.stderr = ch]]
    /\ UNCHANGED <<handle, tmp>>
    /\ UNCHANGED <<gpgVars, pageVars, fileVars>>

\* cmd.Wait() of call c returns and the call runs to its return.
ParWait(c, tm) ==
    /\ calls[c].pc = "wait"
    /\ LET k == calls[c]
           r == IF k.op = "Decrypt" THEN DecryptWait(tm, k.stderr, <<>>)
                ELSE IF k.op = "Verify" THEN VerifyWait(tm, k.stderr)
                ELSE VerifyInlineWait(tm, k.stderr)
       IN  /\ calls' = [calls EXCEPT ![c] = [@ EXCEPT !.pc = "returned", !.from = "wait",
                                                      !.term = tm, !.ret = r]]
           /\ tmp' = ParCleanup(tmp, k)
    /\ UNCHANGED handle
    /\ UNCHANGED <<gpgVars, pageVars, fileVars>>

ParNext ==
    \E c \in Callers :
        \/ \E o \in Ops : ParCall(c, o)
        \/ ParTempDir(c)
        \/ ParWriteData(c)
        \/ ParWriteSig(c)
        \/ ParStart(c)
        \/ \E ch \in ParChunks : ParEmit(c, ch)
        \/ \E tm \in ParTerminations : ParWait(c, tm)

ParSpec == ParInit /\ [][ParNext]_vars

\* ------------------------------------------------------------------ Page.PreloadSubjects

\* Capacity of the channel sem.  The source has conc := 100; the model takes a
\* small capacity, and pages of up to two messages more than it.
conc == 2

MaxMessages == conc + 2

Messages == 1..MaxMessages

\* PreloadSubjects at the head of its first loop: sem empty, errs all nil, no
\* goroutine started.
PageInit ==
    /\ ppc = "loop"
    /\ num \in 0..MaxMessages
    /\ nLoop = 0
    /\ tLoop = 0
    /\ sem = 0
    /\ errs = [i \in Messages |-> FALSE]
    /\ workers = [i \in Messages |-> "none"]
    /\ GpgInit /\ ParQuiet /\ FileQuiet

\* A channel without capacity limit: a send never blocks.
CanSendAlways(s) == TRUE

\* sem <- struct{}{} can proceed: the channel holds less than its capacity.
CanSend(s) == s < conc

\* The second loop left out.
FilledAtOnce(k) == TRUE

\* The second loop is over: t < conc is false.
Filled(k) == ~(k < conc)

\* One turn of the first loop: the send on sem, then the go statement.
Launch ==
    /\ ppc = "loop"
    /\ nLoop < num
    /\ CanSend(sem)
    /\ sem' = sem + 1
    /\ workers' = [workers EXCEPT ![nLoop + 1] = "started"]
    /\ nLoop' = nLoop + 1
    /\ UNCHANGED <<ppc, num, tLoop, errs>>
    /\ UNCHANGED <<gpgVars, parVars, fileVars>>

\* The first loop ends.
LoopDone ==
    /\ ppc = "loop"
    /\ ~(nLoop < num)
    /\ ppc' = "fill"
    /\ UNCHANGED <<num, nLoop, tLoop, sem, errs, workers>>
    /\ UNCHANGED <<gpgVars, parVars, fileVars>>

\* One turn of the second loop: a send on sem.
Fill ==
    /\ ppc = "fill"
    /\ ~Filled(tLoop)
    /\ CanSend(sem)
    /\ sem' = sem + 1
    /\ tLoop' = tLoop + 1
    /\ UNCHANGED <<ppc, num, nLoop, errs, workers>>
    /\ UNCHANGED <<gpgVars, parVars, fileVars>>

\* return nil
PageReturn ==
    /\ ppc = "fill"
    /\ Filled(tLoop)
    /\ ppc' = "returned"
    /\ UNCHANGED <<num, nLoop, tLoop, sem, errs, workers>>
    /\ UNCHANGED <<gpgVars, parVars, fileVars>>

\* The Preload of message i returns, with an error or without.
Preload(i, failed) ==
    /\ workers[i] = "started"
    /\ workers' = [workers EXCEPT ![i] = "preloaded"]
    /\ errs' = [errs EXCEPT ![i] = failed]
    /\ UNCHANGED <<ppc, num, nLoop, tLoop, sem>>
    /\ UNCHANGED <<gpgVars, parVars, fileVars>>

\* The deferred receive from sem of the goroutine of message i.
Release(i) ==
    /\ workers[i] = "preloaded"
    /\ sem > 0
    /\ sem' = sem - 1
    /\ workers' = [workers EXCEPT ![i] = "done"]
    /\ UNCHANGED <<ppc, num, nLoop, tLoop, errs>>
    /\ UNCHANGED <<gpgVars, parVars, fileVars>>

\* The goroutine that runs PreloadSubjects.
Main == Launch \/ LoopDone \/ Fill \/ PageReturn

\* The goroutine of message i.
Worker(i) == (\E failed \in BOOLEAN : Preload(i, failed)) \/ Release(i)

PageNext == Main \/ \E i \in Messages : Worker(i)

PageSpec == PageInit /\ [][PageNext]_vars

\* Every goroutine that can take a step takes one in the end: in particular
\* every Preload returns.
FairPageSpec ==
    /\ PageSpec
    /\ WF_vars(Main)
    /\ \A i \in Messages : WF_vars(Worker(i))

\* ------------------------------------------------------------------ saveFile and openFile

\* Attachment filenames, as sequences of path elements and slashes.
FileNames ==
    { <<>>, <<"a">>, <<"a", "/">>, <<"d", "/", "a">>, <<"..", "/", "a">>,
      <<"/", "a">>, <<"..">>, <<"/">> }

\* The name ioutil.TempFile gives the file of openFile.
TempName == <<"/", "tmp", "/", "cmdg-attachment">>

RECURSIVE StripSlashes(_)
StripSlashes(p) ==
    IF p # <<>> /\ p[Len(p)] = "/" THEN StripSlashes(SubSeq(p, 1, Len(p) - 1)) ELSE p

\* saveFile without its call of path.Base.
BaseIdentity(p) == p

\* path.Base: the last element of the path, trailing slashes left out; "." for
\* the empty path and "/" for a path of slashes only.
Base(p) ==
    IF p = <<>> THEN <<".">>
    ELSE LET q == StripSlashes(p)
             i == Max({j \in 1..Len(q) : q[j] = "/"} \cup {0})
             r == SubSeq(q, i + 1, Len(q))
         IN  IF r = <<>> THEN <<"/">> ELSE r

\* The name saveFile opens.
Target(f) == Base(IF f = <<>> THEN <<"unnamed-attachment">> ELSE f)

\* The paths of the model: relative ones are taken from the current directory.
Paths ==
    (FileNames \ {<<>>}) \cup {<<"unnamed-attachment">>, <<".">>, TempName}

\* Paths that name a directory.
Directories == { <<"..">>, <<"/">>, <<".">> }

\* Files that may be there before the call.
MayExist == { <<"a">>, <<"unnamed-attachment">>, <<"..", "/", "a">> }

FileInit ==
    /\ fop = "none"
    /\ fpc = "idle"
    /\ fn = <<>>
    /\ openWait \in BOOLEAN
    /\ \E old \in SUBSET MayExist :
          disk = [p \in Paths |-> IF p \in old THEN "old"
                                  ELSE IF p \in Directories THEN "dir"
                                  ELSE "none"]
    /\ ferr = "none"
    /\ opener = "none"
    /\ bg = "none"
    /\ GpgInit /\ ParQuiet /\ PageQuiet

\* The function returns from the return statement named e.
FileReturns(e) == fpc' = "returned" /\ ferr' = e

CallSaveFile(f) ==
    /\ fop = "none"
    /\ fop' = "saveFile"
    /\ fn' = f
    /\ fpc' = "open"
    /\ UNCHANGED <<openWait, disk, ferr, opener, bg>>
    /\ UNCHANGED <<gpgVars, parVars, pageVars>>

CallOpenFile ==
    /\ fop = "none"
    /\ fop' = "openFile"
    /\ fpc' = "tempfile"
    /\ UNCHANGED <<fn, openWait, disk, ferr, opener, bg>>
    /\ UNCHANGED <<gpgVars, parVars, pageVars>>

\* os.OpenFile(fn, O_RDWR|O_CREATE|O_EXCL, 0600): it fails when something has
\* the name, and it may fail for another reason; otherwise the file is created.
SaveOpen ==
    /\ fop = "saveFile" /\ fpc = "open"
    /\ LET tg == Target(fn)
       IN  \/ /\ disk[tg] = "none"
              /\ disk' = [disk EXCEPT ![tg] = "empty"]
              /\ fpc' = "write"
              /\ UNCHANGED ferr
           \/ /\ FileReturns("open")
              /\ UNCHANGED disk
    /\ UNCHANGED <<fop, fn, openWait, opener, bg>>
    /\ UNCHANGED <<gpgVars, parVars, pageVars>>

\* f.Write(data) on the file named p; on failure, whatever was written, the
\* file is removed and the error returned.
WriteStep(p) ==
    \/ /\ disk' = [disk EXCEPT ![p] = "new"]
       /\ fpc' = "close"
       /\ UNCHANGED ferr
    \/ /\ disk' = [disk EXCEPT ![p] = "none"]
       /\ FileReturns("write")

SaveWrite ==
    /\ fop = "saveFile" /\ fpc = "write"
    /\ WriteStep(Target(fn))
    /\ UNCHANGED <<fop, fn, openWait, opener, bg>>
    /\ UNCHANGED <<gpgVars, parVars, pageVars>>

\* f.Close(); on failure the file is removed and the error returned.
SaveClose ==
    /\ fop = "saveFile" /\ fpc = "close"
    /\ \/ /\ FileReturns("nil")
          /\ UNCHANGED disk
       \/ /\ disk' = [disk EXCEPT ![Target(fn)] = "none"]
          /\ FileReturns("close")
    /\ UNCHANGED <<fop, fn, openWait, opener, bg>>
    /\ UNCHANGED <<gpgVars, parVars, pageVars>>

\* ioutil.TempFile("", "cmdg-attachment-*"+ext)
OpenTempFile ==
    /\ fop = "openFile" /\ fpc = "tempfile"
    /\ \/ /\ disk' = [disk EXCEPT ![TempName] = "empty"]
          /\ fpc' = "write"
          /\ UNCHANGED ferr
       \/ /\ FileReturns("tempfile")
          /\ UNCHANGED disk
    /\ UNCHANGED <<fop, fn, openWait, opener, bg>>
    /\ UNCHANGED <<gpgVars, parVars, pageVars>>

OpenWrite ==
    /\ fop = "openFile" /\ fpc = "write"
    /\ WriteStep(TempName)
    /\ UNCHANGED <<fop, fn, openWait, opener, bg>>
    /\ UNCHANGED <<gpgVars, parVars, pageVars>>

OpenClose ==
    /\ fop = "openFile" /\ fpc = "close"
    /\ \/ /\ fpc' = "start"
          /\ UNCHANGED <<disk, ferr>>
       \/ /\ disk' = [disk EXCEPT ![TempName] = "none"]
          /\ FileReturns("close")
    /\ UNCHANGED <<fop, fn, openWait, opener, bg>>
    /\ UNCHANGED <<gpgVars, parVars, pageVars>>

\* cmd.Start() of the opener, then w() or go w().  When the start fails the
\* function returns at once.
OpenStart ==
    /\ fop = "openFile" /\ fpc = "start"
    /\ \/ /\ FileReturns("start")
          /\ UNCHANGED <<opener, bg>>
       \/ /\ opener' = "running"
          /\ IF openWait
             THEN fpc' = "wait" /\ UNCHANGED <<ferr, bg>>
             ELSE FileReturns("nil") /\ bg' = "wait"
    /\ UNCHANGED <<fop, fn, openWait, disk>>
    /\ UNCHANGED <<gpgVars, parVars, pageVars>>

\* The opener process ends.
OpenerExits ==
    /\ opener = "running"
    /\ opener' = "exited"
    /\ UNCHANGED <<fop, fpc, fn, openWait, disk, ferr, bg>>
    /\ UNCHANGED <<gpgVars, parVars, pageVars>>

\* w() called by openFile itself (open_wait on): cmd.Wait(), os.Remove(fn),
\* then return nil.
WaitAndRemove ==
    /\ fop = "openFile" /\ fpc = "wait"
    /\ opener = "exited"
    /\ opener' = "reaped"
    /\ disk' = [disk EXCEPT ![TempName] = "none"]
    /\ FileReturns("nil")
    /\ UNCHANGED <<fop, fn, openWait, bg>>
    /\ UNCHANGED <<gpgVars, parVars, pageVars>>

\* w() in its own goroutine (open_wait off): cmd.Wait() ...
BgWait ==
    /\ bg = "wait"
    /\ opener = "exited"
    /\ opener' = "reaped"
    /\ bg' = "sleep"
    /\ UNCHANGED <<fop, fpc, fn, openWait, disk, ferr>>
    /\ UNCHANGED <<gpgVars, parVars, pageVars>>

\* ... time.Sleep(time.Minute) ...
BgSleep ==
    /\ bg = "sleep"
    /\ bg' = "remove"
    /\ UNCHANGED <<fop, fpc, fn, openWait, disk, ferr, opener>>
    /\ UNCHANGED <<gpgVars, parVars, pageVars>>

\* ... os.Remove(fn).
BgRemove ==
    /\ bg = "remove"
    /\ disk' = [disk EXCEPT ![TempName] = "none"]
    /\ bg' = "done"
    /\ UNCHANGED <<fop, fpc, fn, openWait, ferr, opener>>
    /\ UNCHANGED <<gpgVars, parVars, pageVars>>

FileNext ==
    \/ \E f \in FileNames : CallSaveFile(f)
    \/ CallOpenFile
    \/ SaveOpen
    \/ SaveWrite
    \/ SaveClose
    \/ OpenTempFile
    \/ OpenWrite
    \/ OpenClose
    \/ OpenStart
    \/ OpenerExits
    \/ WaitAndRemove
    \/ BgWait
    \/ BgSleep
    \/ BgRemove

FileSpec == FileInit /\ [][FileNext]_vars

\* ------------------------------------------------------------------ reading a stream line by line

\* The lines of a text: what lies between its newlines.
RECURSIVE Lines(_)
Lines(s) ==
    LET e == LineEnd(s, 1)
    IN  IF e > Len(s) THEN <<s>>
        ELSE <<SubSeq(s, 1, e - 1)>> \o Lines(SubSeq(s, e + 1, Len(s)))

\* A line announces a signer with polarity head ("G" good, "B" bad): it begins
\* with the literal and holds a closing quote.
Announces(line, head) ==
    /\ line # <<>>
    /\ line[1] = head
    /\ \E j \in 2..Len(line) : line[j] = "Q"

\* The identity a line announces: what stands between the literal's quote and the
\* last quote of the line.
Announced(line) ==
    SubSeq(line, 2, Max({j \in 2..Len(line) : line[j] = "Q"}) - 1)

\* The numbers of the lines of s that announce a signer with polarity head.
Announcements(s, head) ==
    LET ls == Lines(s)
    IN  {i \in 1..Len(ls) : Announces(ls[i], head)}

\* A text free of ESC and carriage-return bytes.
IsClean(s) == \A i \in 1..Len(s) : s[i] \notin {"ESC", "CR"}

\* A text with its ESC and carriage-return bytes left out.
RECURSIVE Cleaned(_)
Cleaned(s) ==
    IF s = <<>> THEN <<>>
    ELSE IF Head(s) \in {"ESC", "CR"} THEN Cleaned(Tail(s))
    ELSE <<Head(s)>> \o Cleaned(Tail(s))

Returned == pc = "returned"
\* The call returned a Status and no error.
ReturnedStatus == Returned /\ ret.err = None /\ ret.status # None
\* The Status returned (when there is one).
St == ret.status[1]
IsVerify == op \in {"Verify", "VerifyInline"}
\* cmd.Wait() ended with exit status 0 or 1.
ExpectedExit == from = "wait" /\ term \in {"exit0", "exit1"}

\* ------------------------------------------------------------------ claims

\* C1: in every Status returned without error by Decrypt, Verify or
\* VerifyInline, GoodSignature true implies that Signed is a non-empty string.
C1_GoodImpliesSigner ==
    ReturnedStatus /\ St.GoodSignature => St.Signed # <<>>

\* C2 as stated: when the stream of Verify or VerifyInline holds more than one
\* signer announcement, the Status takes its signer and its verdict from the
\* first announcement in stream order.
C2_FirstAnnouncementWins ==
    LET good == Announcements(stderr, "G")
        bad == Announcements(stderr, "B")
        first == Min(good \cup bad)
    IN  (IsVerify /\ ReturnedStatus /\ Cardinality(good \cup bad) > 1)
            => /\ St.GoodSignature = (first \in good)
               /\ St.Signed = Cleaned(Announced(Lines(stderr)[first]))

\* C2 as amended: when the stream of Verify or VerifyInline holds more than one
\* signer announcement, the Status takes its signer and its verdict from the
\* first Good-signature announcement when there is one, and from the first
\* BAD-signature announcement otherwise.
C2_GoodTakesPrecedence ==
    LET good == Announcements(stderr, "G")
        bad == Announcements(stderr, "B")
        used == IF good # {} THEN Min(good) ELSE Min(bad)
    IN  (IsVerify /\ ReturnedStatus /\ Cardinality(good \cup bad) > 1)
            => /\ St.GoodSignature = (good # {})
               /\ St.Signed = Cleaned(Announced(Lines(stderr)[used]))

\* C2's case: a BAD announcement of "a" followed by a Good announcement of "b",
\* and the call returned the Good one.
C2_Witness ==
    /\ IsVerify /\ ReturnedStatus
    /\ stderr = BadLine(<<"a">>) \o <<"NL">> \o GoodLine(<<"b", "SP", "ESC">>)
    /\ St.GoodSignature /\ St.Signed = <<"b", "SP">>

\* C3: for Verify and VerifyInline, when the stream holds a BAD-signature line
\* and no Good-signature line and the subprocess exits with status 0 or 1, the
\* call returns a Status with GoodSignature false and a non-empty Signed.
C3_BadVerdictNamesSigner ==
    (/\ IsVerify /\ Returned /\ ExpectedExit
     /\ Announcements(stderr, "B") # {}
     /\ Announcements(stderr, "G") = {})
        => /\ ret.err = None
           /\ ret.status # None
           /\ ~St.GoodSignature
           /\ St.Signed # <<>>

\* C4: for Verify and VerifyInline, when the subprocess exits with status 0 or 1
\* and the stream holds neither a good nor a bad announcement, the call returns
\* the indeterminate-result error and a nil Status.
C4_Indeterminate ==
    (/\ IsVerify /\ Returned /\ ExpectedExit
     /\ Announcements(stderr, "B") = {}
     /\ Announcements(stderr, "G") = {})
        => /\ ret.status = None
           /\ ret.err # None
           /\ ret.err[1].kind = "Indeterminate"

\* C4's case: exit status 1 and a stream whose only Good literal is not at the
\* start of a line.
C4_Witness ==
    /\ IsVerify /\ Returned /\ term = "exit1"
    /\ stderr = EncLine(<<"a">>) \o GoodLine(<<"a">>)
    /\ ret.err # None

\* C5: for Verify and VerifyInline, when the subprocess fails to start, exits
\* with a status other than 0 or 1, or ends in a way that is no plain exit code,
\* the call returns a fatal error and a nil Status, whatever the stream holds.
C5_FatalTermination ==
    (/\ IsVerify /\ Returned
     /\ \/ from = "start"
        \/ from = "wait" /\ term \in {"exit2", "signal", "notUnix", "waitErr"})
        => /\ ret.status = None
           /\ ret.err # None
           /\ ret.err[1].kind \in {"Launch", "Execution"}

\* C5's case: exit status 2 with a Good-signature line in the stream.
C5_Witness ==
    /\ IsVerify /\ Returned /\ term = "exit2"
    /\ Announcements(stderr, "G") # {}
    /\ ret.err # None

\* C6: for Verify and VerifyInline the exit status is only a gate: what a run
\* with exit status 0 or 1 returned is what the same stream returns with the
\* other of the two statuses.
C6_ExitStatusIsGate ==
    (IsVerify /\ Returned /\ ExpectedExit)
        => LET other == IF term = "exit0" THEN "exit1" ELSE "exit0"
           IN  ret = IF op = "Verify" THEN VerifyWait(other, stderr)
                                      ELSE VerifyInlineWait(other, stderr)

\* C6's case: exit status 1 and a good verdict.
C6_Witness ==
    /\ IsVerify /\ ReturnedStatus /\ term = "exit1"
    /\ St.GoodSignature /\ St.Signed = <<"a">>

\* C7: every identity of a returned Status (Signed, each element of Encrypted)
\* and every error message returned holds no ESC byte and no carriage return.
C7_OutputsAreClean ==
    Returned =>
        /\ ret.status # None =>
              /\ IsClean(St.Signed)
              /\ \A i \in 1..Len(St.Encrypted) : IsClean(St.Encrypted[i])
        /\ ret.err # None => IsClean(ret.err[1].msg)

\* C7's case: a signer and a recipient whose identities hold an ESC byte.
C7_Witness ==
    /\ op = "Decrypt" /\ ReturnedStatus
    /\ stderr = EncLine(<<"b", "SP", "ESC">>) \o <<"NL">> \o GoodLine(<<"b", "SP", "ESC">>)
    /\ St.Signed = <<"b", "SP">>
    /\ St.Encrypted = << <<"b">> >>

\* C8: Decrypt returns without error exactly when the subprocess started and
\* exited with status 0; then the plaintext is the captured standard output and
\* a Status is returned; otherwise the plaintext is empty and the Status nil.
C8_DecryptSuccess ==
    (op = "Decrypt" /\ Returned)
        => /\ ret.err = None <=> (from = "wait" /\ term = "exit0")
           /\ ret.err = None => (ret.plaintext = stdout /\ ret.status # None)
           /\ ret.err # None => (ret.plaintext = <<>> /\ ret.status = None)

\* C8's case: exit status 0, some plaintext, and no diagnostics at all.
C8_Witness ==
    /\ op = "Decrypt" /\ ReturnedStatus
    /\ stdout = <<"p">> /\ ret.plaintext = <<"p">>
    /\ stderr = <<>>
    /\ St = Status

\* C9: in every Status returned, an empty Signed implies that the stream held no
\* signature announcement of either polarity.
C9_NoSignerNoAnnouncement ==
    (ReturnedStatus /\ St.Signed = <<>>)
        => Announcements(stderr, "G") \cup Announcements(stderr, "B") = {}

\* C10 as stated: after a Verify call whose temporary directory was created
\* returns, the directory and both files exist if and only if the retention
\* flag is set.
C10_AllExistIffKept ==
    (op = "Verify" /\ Returned /\ fs.dir # "never")
        => ((fs.dir = "exists" /\ fs.data = "exists" /\ fs.sig = "exists") <=> debugNoRemove)

\* C10 as amended: after a Verify call whose temporary directory was created
\* returns, the directory exists if and only if the retention flag is set; with
\* the flag unset nothing the call created remains, and with it set every file
\* the call created remains, which is both files once both were written.
C10_CleanupUnlessKept ==
    (op = "Verify" /\ Returned /\ fs.dir # "never")
        => /\ fs.dir = "exists" <=> debugNoRemove
           /\ ~debugNoRemove => (fs.data # "exists" /\ fs.sig # "exists")
           /\ debugNoRemove => (fs.data # "removed" /\ fs.sig # "removed")
           /\ (debugNoRemove /\ from \in {"start", "wait"})
                 => (fs.data = "exists" /\ fs.sig = "exists")

\* C10's case: a cancelled Verify under the default configuration, its
\* directory and both files removed.
C10_Witness ==
    /\ op = "Verify" /\ Returned /\ ctxDone /\ term = "signal" /\ ~debugNoRemove
    /\ fs = [dir |-> "removed", data |-> "removed", sig |-> "removed"]

\* C11: a call whose context was cancelled while its subprocess ran returns
\* with the subprocess reaped, an error and a nil Status.
C11_CancelledCallFails ==
    (Returned /\ from = "wait" /\ ctxDone)
        => (proc = "reaped" /\ ret.err # None /\ ret.status = None)

\* C12: the error a call returns because of its cancellation (the start refused
\* for a context already done, or the subprocess ended by the kill) is of a kind
\* of its own: not the one of a launch failure, not the one of an execution
\* failure.
C12_CancellationIsDistinct ==
    (Returned /\ ctxDone /\ ret.err # None
        /\ (from = "start" \/ (from = "wait" /\ term = "signal")))
        => ret.err[1].kind \notin {"Launch", "Execution"}

\* ------------------------------------------------------------------ recipients, line by line

\* A line of blanks only.
IsBlank(line) == \A i \in 1..Len(line) : IsSpace(line[i])

\* The first line of a recipient announcement: the literal and some text after it.
IsHeader(line) == Len(line) >= 2 /\ line[1] = "E"

\* What is left of a line once its leading blanks are dropped.
RECURSIVE Unindent(_)
Unindent(line) ==
    IF line # <<>> /\ IsSpace(Head(line)) THEN Unindent(Tail(line)) ELSE line

\* The second line of a recipient announcement: after its indentation, an
\* identity of at least one byte between a quote and the quote that ends the line.
IsQuoted(line) ==
    LET t == Unindent(line)
    IN  Len(t) >= 3 /\ t[1] = "Q" /\ t[Len(t)] = "Q"

QuotedIdentity(line) == LET t == Unindent(line) IN SubSeq(t, 2, Len(t) - 1)

\* The identities of the recipient announcements among the first k lines of ls,
\* from line i on: a header line, blank lines if any, and a quoted line.
RECURSIVE Recipients(_, _, _)
Recipients(ls, i, k) ==
    IF i > k THEN <<>>
    ELSE LET j == Min({n \in (i + 1)..k : ~IsBlank(ls[n])} \cup {k + 1})
         IN  IF IsHeader(ls[i]) /\ j <= k /\ IsQuoted(ls[j])
             THEN <<QuotedIdentity(ls[j])>> \o Recipients(ls, j + 1, k)
             ELSE Recipients(ls, i + 1, k)

\* The identities of the recipient announcements of a stream, in the order of
\* the stream.  Only a line ended by a newline counts as a line.
AnnouncedRecipients(s) == LET ls == Lines(s) IN Recipients(ls, 1, Len(ls) - 1)

\* A text without the spaces at its two ends.
Stripped(s) ==
    LET ix == {i \in 1..Len(s) : s[i] # "SP"}
    IN  IF ix = {} THEN <<>> ELSE SubSeq(s, Min(ix), Max(ix))

C14_UnterminatedIsCollected ==
    (op = "Decrypt" /\ ReturnedStatus /\ stderr = EncLine(<<"a">>))
        => (St.Encrypted = << <<"a">> >> /\ St.Signed = <<>>)

\* C15: VerifyInline returns what Verify returns for the same launch outcome,
\* termination and stream, and it never creates a temporary file.
C15_InlineIsVerify ==
    (op = "VerifyInline" /\ Returned)
        => /\ fs = NoFiles
           /\ from \in {"start", "wait"}
           /\ from = "wait" => ret = VerifyWait(term, stderr)
           /\ from = "start"
                => ret = Return(<<>>, None, Error("Launch", StartMessage("Verify", ctxDone)))

\* C15's case: VerifyInline returned a verdict from a stream with both polarities.
C15_Witness ==
    /\ op = "VerifyInline" /\ ReturnedStatus
    /\ stderr = BadLine(<<"a">>) \o <<"NL">> \o GoodLine(<<"a">>) \o <<"NL">>
    /\ St.GoodSignature /\ fs = NoFiles

\* ------------------------------------------------------------------ claims on concurrent calls

\* Call k is a Verify that has its temporary directory and has not returned.
HoldsDir(k) == k.op = "Verify" /\ k.pc \in {"writeData", "writeSig", "start", "wait"}

\* What a call returns when it runs alone and its subprocess behaves as k's did.
Alone(k) ==
    IF k.from = "start"
    THEN Return(<<>>, None, Error("Launch", StartMessage(k.op, FALSE)))
    ELSE IF k.op = "Decrypt" THEN DecryptWait(k.term, k.stderr, <<>>)
    ELSE IF k.op = "Verify" THEN VerifyWait(k.term, k.stderr)
    ELSE VerifyInlineWait(k.term, k.stderr)

\* C16: with calls running concurrently on one handle, the fields of the handle
\* stay as New set them; a Verify in flight has a temporary directory that
\* exists, that no other call in flight has, and that holds the files this call
\* wrote; a call that is no Verify has no directory; and a call returns what it
\* would return alone.
C16_NoInterference ==
    /\ handle = New
    /\ \A c \in Callers :
          LET k == calls[c]
          IN  /\ HoldsDir(k) =>
                    /\ tmp[k.dir].dir = "exists"
                    /\ k.pc # "writeData" => tmp[k.dir].data = c
                    /\ k.pc \in {"start", "wait"} => tmp[k.dir].sig = c
                    /\ \A e \in Callers \ {c} : HoldsDir(calls[e]) => calls[e].dir # k.dir
              /\ k.op # "Verify" => k.dir = 0
              /\ (k.pc = "returned" /\ k.from \in {"start", "wait"}) => k.ret = Alone(k)

\* C16's case: a Verify has returned and removed its directory while another
\* Verify, started before that return, still waits for its subprocess.
C16_Witness ==
    /\ calls[1].op = "Verify" /\ calls[1].pc = "returned" /\ calls[1].from = "wait"
    /\ ~calls[1].keep /\ tmp[calls[1].dir].dir = "removed"
    /\ calls[2].op = "Verify" /\ calls[2].pc = "wait"
    /\ calls[2].dir # calls[1].dir
    /\ tmp[calls[2].dir].sig = 2

\* ------------------------------------------------------------------ claims on PreloadSubjects

\* The messages whose Preload is in flight.
InFlight == {i \in Messages : workers[i] = "started"}

\* The goroutines that have not yet released their slot.
Holding == {i \in Messages : workers[i] \in {"started", "preloaded"}}

\* C17: at any moment at most conc Preload calls are in flight, whatever the
\* number of messages; every goroutine started and not yet released accounts
\* for one element of sem (it was started after the send and it receives only
\* after its Preload returned), and sem never holds more than conc elements.
C17_BoundedPreloads ==
    /\ Cardinality(InFlight) <= conc
    /\ sem = Cardinality(Holding) + tLoop
    /\ sem <= conc

\* C17's case: more messages than slots, every slot taken by a Preload in
\* flight, and PreloadSubjects waiting to send with messages left.
C17_Witness ==
    /\ num > conc
    /\ ppc = "loop" /\ nLoop < num
    /\ Cardinality(InFlight) = conc

\* C18: PreloadSubjects has returned only if every goroutine it started has
\* finished its Preload and released its slot; and, every Preload returning,
\* PreloadSubjects returns in the end, for every number of messages from 0 to
\* more than conc.
C18_Barrier ==
    /\ [](ppc = "returned" => \A i \in 1..num : workers[i] = "done")
    /\ <>(ppc = "returned")

\* C18's case: a page of more messages than slots, one Preload failed, and
\* PreloadSubjects returned.
C18_Witness ==
    /\ ppc = "returned"
    /\ num > conc
    /\ \A i \in 1..num : workers[i] = "done"
    /\ \E i \in 1..num : errs[i]

\* ------------------------------------------------------------------ claims on saveFile and openFile

\* C19: when openFile has returned an error its temporary file is gone; and,
\* after a return without error, the file is gone only once the opener has
\* been waited for (and the minute has passed, with open_wait off).
C19_NoTempFileLeft ==
    (fop = "openFile" /\ fpc = "returned")
        => /\ ferr # "nil" => disk[TempName] = "none"
           /\ (ferr = "nil" /\ disk[TempName] = "none")
                => (opener = "reaped" /\ (openWait \/ bg = "done"))

\* The last element of a filename, "unnamed-attachment" for the empty one.
NameOf(f) ==
    IF f = <<>> THEN <<"unnamed-attachment">>
    ELSE LET ix == {j \in 1..Len(f) : f[j] # "/"}
         IN  IF ix = {} THEN <<"/">> ELSE <<f[Max(ix)]>>

\* A name in the current directory: one element, and not a directory.
IsPlainName(p) == Len(p) = 1 /\ p \notin Directories

\* C20: saveFile changes no path but the last element of the filename
\* ("unnamed-attachment" for the empty filename), which is a name in the
\* current directory, and it never changes what was there before the call;
\* when it has returned an error no file it created is left, and when it has
\* returned without error the file holds the data.
C20_NoOverwrite ==
    /\ [][fop' = "saveFile"
            => \A p \in Paths :
                  disk'[p] # disk[p]
                      => (p = NameOf(fn') /\ IsPlainName(p) /\ disk[p] \notin {"old", "dir"})]_vars
    /\ []((fop = "saveFile" /\ fpc = "returned")
            => IF ferr = "nil" THEN disk[NameOf(fn)] = "new"
               ELSE disk[NameOf(fn)] \notin {"empty", "new"})

\* C20's case: the filename leads out of the current directory and a file has
\* its last element for name; saveFile returned the error of the open and the
\* file is as it was.
C20_Witness ==
    /\ fop = "saveFile" /\ fpc = "returned" /\ ferr = "open"
    /\ fn = <<"..", "/", "a">>
    /\ disk[<<"a">>] = "old"
    /\ disk[<<"..", "/", "a">>] = "none"

====
